---- MODULE Spec2Model ----
(***************************************************************************)
(* Score submission and ranking pipeline of gulag (objects/score.py).      *)
(*                                                                         *)
(* The state is the score store (the rows of the score tables), the        *)
(* submissions in flight (one coroutine per submission, suspended at its   *)
(* awaits) and the object most recently returned by Score.from_sql to a    *)
(* reader.  Every await of from_submission that touches the store is a     *)
(* separate step, so that submissions interleave as coroutines do.         *)
(***************************************************************************)
EXTENDS Integers, Sequences, FiniteSets, TLC

(***************************************************************************)
(* Bounds of the model.                                                    *)
(***************************************************************************)
\* Submissions accepted over a run (rows the store can come to hold).
MaxStore == 3
\* The performance engine answers a value in 0..MaxPP.
MaxPP == 2
\* Submissions that may be in flight at once.
MaxTasks == 2
\* A hit count sent by a client is in 0..MaxHit.
MaxHit == 2

(***************************************************************************)
(* SubmissionStatus (score.py:51-55).                                      *)
(***************************************************************************)
FAILED == 0
SUBMITTED == 1
BEST == 2

\* Arity of the decrypted plaintext and length of a map checksum.
NumFields == 18
Md5Len == 32

(***************************************************************************)
(* constants/gamemodes.py and constants/mods.py are not part of the        *)
(* sources at hand: GameMode is taken as an IntEnum whose vanilla modes    *)
(* are 0..3 (score.py:332, 388-415) and whose relax variants follow them,  *)
(* with rx_std the first (score.py:309).                                   *)
(***************************************************************************)
vn_std == 0
vn_mania == 3
rx_std == 4

NOMOD == 0
RELAX == 128

\* mods & flag, for a single-bit flag.
HasMod(mods, flag) == (mods \div flag) % 2 = 1

\* GameMode.from_params(mode_vn, mods)
from_params(mode_vn, mods) ==
    IF HasMod(mods, RELAX) THEN mode_vn + rx_std ELSE mode_vn

\* GameMode.as_vanilla
as_vanilla(mode) == mode % 4

\* GameMode.sql_table: one table per assist variant.
sql_table(mode) == IF mode <= vn_mania THEN "scores_vn" ELSE "scores_rx"

(***************************************************************************)
(* Text: a field of the plaintext is a sequence of characters.             *)
(***************************************************************************)
Digits == {"0", "1", "2", "3", "4", "5", "6", "7", "8", "9"}

DigitVal(c) ==
    CASE c = "0" -> 0 [] c = "1" -> 1 [] c = "2" -> 2 [] c = "3" -> 3
      [] c = "4" -> 4 [] c = "5" -> 5 [] c = "6" -> 6 [] c = "7" -> 7
      [] c = "8" -> 8 [] c = "9" -> 9

\* str.isdecimal(): every character a decimal digit, and at least one.
isdecimal(f) == Len(f) > 0 /\ \A i \in 1..Len(f) : f[i] \in Digits

\* int(str) of a decimal string.
RECURSIVE int(_)
int(f) == IF Len(f) = 0 THEN 0
          ELSE 10 * int(SubSeq(f, 1, Len(f) - 1)) + DigitVal(f[Len(f)])

\* str.rstrip(): trailing whitespace removed.
RECURSIVE rstrip(_)
rstrip(f) == IF Len(f) > 0 /\ f[Len(f)] = " "
             THEN rstrip(SubSeq(f, 1, Len(f) - 1)) ELSE f

\* data[i] of the code (0-based) is field i + 1 here.
Fld(data, i) == data[i + 1]

\* data[3:11] + [data[13], data[15]]: the fields cast to int.
IntFields == (3..10) \cup {13, 15}

(***************************************************************************)
(* The collaborators of the pipeline (spec.md section 6): map lookup and   *)
(* the player registry.  Two maps are known; two players are registered.    *)
(***************************************************************************)
Md5Known == [i \in 1..Md5Len |-> "a"]
Md5Known2 == [i \in 1..Md5Len |-> "c"]
Md5Unknown == [i \in 1..Md5Len |-> "b"]
Md5Short == <<"a", "b">>

\* "no object" (None) is the empty sequence, an object o is <<o>>.
None == <<>>

\* Beatmap.from_md5(md5): the map with that checksum, or None.
BeatmapFromMd5(md5) == IF md5 \in {Md5Known, Md5Known2} THEN <<md5>> ELSE None

\* The registry's id of a (stripped) player name; 0 when there is none.
PlayerId(pname) == IF pname = <<"a">> THEN 1 ELSE IF pname = <<"b">> THEN 2 ELSE 0

\* glob.players.get_login(pname, phash): the player when the name is
\* registered and the session is logged in (online), else none (0).
get_login(pname, online) == IF online THEN PlayerId(pname) ELSE 0

(***************************************************************************)
(* The plaintexts clients send.  A well-formed one has 18 fields:          *)
(* 0 map md5, 1 player name, 2 checksum, 3 n300, 4 n100, 5 n50, 6 ngeki,   *)
(* 7 nkatu, 8 nmiss, 9 score, 10 max combo, 11 perfect, 12 grade, 13 mods, *)
(* 14 passed, 15 mode, 16 date, 17 client version.                         *)
(***************************************************************************)
PassTrue == <<"T", "r", "u", "e">>
PassFalse == <<"F", "a", "l", "s", "e">>

\* hits = <<n300, n100, n50, nmiss>>, mp = <<mode, mods>>, all as text.
Plain(md5, name, hits, sc, mp, pass) ==
    << md5, name, <<"c">>, hits[1], hits[2], hits[3], <<"0">>, <<"0">>,
       hits[4], sc, <<"1">>, <<"1">>, <<"A">>, mp[2], pass, mp[1],
       <<"d">>, <<"v", " ">> >>

ModeStd == << <<"0">>, <<"0">> >>
ModeRxStd == << <<"0">>, <<"1", "2", "8">> >>
ModeRxTaiko == << <<"1">>, <<"1", "2", "8">> >>
ModeTaiko == << <<"1">>, <<"0">> >>
ModeCatch == << <<"2">>, <<"0">> >>
ModeMania == << <<"3">>, <<"0">> >>

HitsFull == << <<"1">>, <<"0">>, <<"0">>, <<"0">> >>
HitsMiss == << <<"0">>, <<"0">>, <<"0">>, <<"1">> >>
HitsNone == << <<"0">>, <<"0">>, <<"0">>, <<"0">> >>
HitsMixed == << <<"1">>, <<"1">>, <<"1">>, <<"1">> >>

\* str(n) of a one-digit number.
DigitText(n) == << CHOOSE c \in Digits : DigitVal(c) = n >>

\* Text that is no decimal integer.
BadInts == { <<>>, <<"x">>, <<"-", "1">> }

\* A plaintext with one of its fields replaced.
WithField(data, i, f) == [data EXCEPT ![i + 1] = f]

(***************************************************************************)
(* The Score object (score.py:64-187).  Attributes that the pipeline only  *)
(* copies and never reads (max_combo, ngeki, nkatu, grade, perfect,        *)
(* play_time, time_elapsed, client_flags) are left out.  acc is the exact  *)
(* quotient <<numerator, denominator>> of the float division.              *)
(***************************************************************************)
\* Score.__init__
NewScore ==
    [ id |-> 0, bmap |-> None, player |-> 0, pp |-> 0, score |-> 0,
      mods |-> NOMOD, acc |-> <<0, 1>>, n300 |-> 0, n100 |-> 0, n50 |-> 0,
      nmiss |-> 0, rank |-> 0, passed |-> FALSE, status |-> FAILED,
      mode |-> vn_std, prev_best |-> None ]

\* Mutant: a miss is weighted as a 50.
AccuracyMissWeighted(s) ==
    LET mode_vn == as_vanilla(s.mode) IN
    IF mode_vn = 0 THEN
        LET total == s.n300 + s.n100 + s.n50 + s.nmiss IN
        IF total = 0 THEN <<0, 1>>
        ELSE <<100 * ((s.n50 + s.nmiss) * 50 + s.n100 * 100 + s.n300 * 300),
               total * 300>>
    ELSE IF mode_vn = 1 THEN
        LET total == s.n300 + s.n100 + s.nmiss IN
        IF total = 0 THEN <<0, 1>>
        ELSE <<100 * (s.n100 * 150 + s.n300 * 300), total * 300>>
    ELSE s.acc

\* Mutant: the alternate-timing mode counts n50 in the numerator.
AccuracyTaikoCounts50(s) ==
    LET mode_vn == as_vanilla(s.mode) IN
    IF mode_vn = 0 THEN
        LET total == s.n300 + s.n100 + s.n50 + s.nmiss IN
        IF total = 0 THEN <<0, 1>>
        ELSE <<100 * (s.n50 * 50 + s.n100 * 100 + s.n300 * 300), total * 300>>
    ELSE IF mode_vn = 1 THEN
        LET total == s.n300 + s.n100 + s.nmiss IN
        IF total = 0 THEN <<0, 1>>
        ELSE <<100 * (s.n50 * 50 + s.n100 * 150 + s.n300 * 300), total * 300>>
    ELSE s.acc

\* Score.calc_accuracy: the acc it sets, given the mode and the hit counts.
calc_accuracy(s) ==
    LET mode_vn == as_vanilla(s.mode) IN
    IF mode_vn = 0 THEN
        LET total == s.n300 + s.n100 + s.n50 + s.nmiss IN
        IF total = 0 THEN <<0, 1>>
        ELSE <<100 * (s.n50 * 50 + s.n100 * 100 + s.n300 * 300), total * 300>>
    ELSE IF mode_vn = 1 THEN
        LET total == s.n300 + s.n100 + s.nmiss IN
        IF total = 0 THEN <<0, 1>>
        ELSE <<100 * (s.n100 * 150 + s.n300 * 300), total * 300>>
    ELSE s.acc

\* Mutant: the engine is called in every mode.
EngineSupportsAll(mode) == as_vanilla(mode) \in {0, 1, 2, 3}

\* Score.calc_diff: whether the engine is called for this mode.
EngineSupports(mode) == as_vanilla(mode) \in {0, 1}

(***************************************************************************)
(* The store: the rows of the score tables, in insertion order.  A row's   *)
(* id is its position; tbl is the table it lives in.                       *)
(***************************************************************************)
Row(id, md5, s) ==
    [ tbl |-> sql_table(s.mode), map_md5 |-> md5, userid |-> s.player,
      pp |-> s.pp, score |-> s.score, mods |-> s.mods, acc |-> s.acc,
      n300 |-> s.n300, n100 |-> s.n100, n50 |-> s.n50, nmiss |-> s.nmiss,
      status |-> s.status, mode |-> as_vanilla(s.mode) ]

\* calc_lb_placement: the ranking metric of a mode is pp or score.
ScoringIsPP(mode) == mode <= rx_std

\* The value calc_lb_placement passes to the query.
RankValue(s) == IF ScoringIsPP(s.mode) THEN s.pp ELSE s.score

\* The column it is compared against.
RowValue(row, mode) == IF ScoringIsPP(mode) THEN row.pp ELSE row.score

\* Mutant: the rows of lesser value are counted.
LbWorse(st, s) ==
    { i \in 1..Len(st) :
        /\ st[i].tbl = sql_table(s.mode)
        /\ st[i].map_md5 = s.bmap[1]
        /\ st[i].mode = as_vanilla(s.mode)
        /\ st[i].status = BEST
        /\ RowValue(st[i], s.mode) < RankValue(s) }

\* Mutant: rows of equal value are counted too.
LbBetterOrEqual(st, s) ==
    { i \in 1..Len(st) :
        /\ st[i].tbl = sql_table(s.mode)
        /\ st[i].map_md5 = s.bmap[1]
        /\ st[i].mode = as_vanilla(s.mode)
        /\ st[i].status = BEST
        /\ RowValue(st[i], s.mode) >= RankValue(s) }

\* The rows the count query of calc_lb_placement counts.
LbBetter(st, s) ==
    { i \in 1..Len(st) :
        /\ st[i].tbl = sql_table(s.mode)
        /\ st[i].map_md5 = s.bmap[1]
        /\ st[i].mode = as_vanilla(s.mode)
        /\ st[i].status = BEST
        /\ RowValue(st[i], s.mode) > RankValue(s) }

\* Score.calc_lb_placement
calc_lb_placement(st, s) == Cardinality(LbBetter(st, s)) + 1

\* Mutant: only a BEST row counts as passed.
PassedOnlyBest(status) == status = BEST

\* from_sql: passed as derived from the stored status.
PassedOf(status) == status # 0

\* Score.from_sql(scoreid, sql_table): None when the table has no such row.
from_sql(st, scoreid, table) ==
    IF ~(scoreid \in 1..Len(st) /\ st[scoreid].tbl = table) THEN None
    ELSE
        LET row == st[scoreid]
            s0 == [ NewScore EXCEPT
                      !.id = scoreid,
                      !.bmap = BeatmapFromMd5(row.map_md5),
                      !.player = row.userid,
                      !.pp = row.pp, !.score = row.score, !.mods = row.mods,
                      !.acc = row.acc, !.n300 = row.n300, !.n100 = row.n100,
                      !.n50 = row.n50, !.nmiss = row.nmiss,
                      !.passed = PassedOf(row.status),
                      !.status = row.status,
                      !.mode = from_params(row.mode, row.mods) ]
        IN  << IF s0.bmap # None
               THEN [s0 EXCEPT !.rank = calc_lb_placement(st, s0)]
               ELSE s0 >>

\* calc_status: the rows its lookup of the player's current BEST matches.
BestRows(st, s) ==
    { i \in 1..Len(st) :
        /\ st[i].tbl = sql_table(s.mode)
        /\ st[i].userid = s.player
        /\ st[i].map_md5 = s.bmap[1]
        /\ st[i].mode = as_vanilla(s.mode)
        /\ st[i].status = BEST }

\* Mutant: the lower pp takes over.
PromotesWhenLower(pp, best_pp) == pp < best_pp

\* Mutant: a tie promotes too.
PromotesOnTie(pp, best_pp) == pp >= best_pp

\* calc_status: whether the new score takes over from the BEST it found.
Promotes(pp, best_pp) == pp > best_pp

\* Mutant: the previous best is demoted to FAILED.
ResolveDemotesToFailed(s, prev, best_pp) ==
    IF s.pp > best_pp
    THEN [s EXCEPT !.status = BEST,
                   !.prev_best = <<[prev EXCEPT !.status = FAILED]>>]
    ELSE [s EXCEPT !.status = SUBMITTED, !.prev_best = <<prev>>]

\* Mutant: the new score is promoted and prev_best keeps its status.
ResolveNoDemotion(s, prev, best_pp) ==
    IF s.pp > best_pp
    THEN [s EXCEPT !.status = BEST, !.prev_best = <<prev>>]
    ELSE [s EXCEPT !.status = SUBMITTED, !.prev_best = <<prev>>]

\* calc_status with a previous best: the new score with prev_best set and
\* both statuses resolved.
ResolveAgainst(s, prev, best_pp) ==
    IF Promotes(s.pp, best_pp)
    THEN [s EXCEPT !.status = BEST,
                   !.prev_best = <<[prev EXCEPT !.status = SUBMITTED]>>]
    ELSE [s EXCEPT !.status = SUBMITTED, !.prev_best = <<prev>>]

\* Mutant: the first score on a map is only SUBMITTED.
FirstStatusSubmitted == SUBMITTED

\* calc_status with no BEST row found.
FirstStatus == BEST

\* Mutant: without a map a passing play is BEST.
NoMapStatusBest(passed) == IF passed THEN BEST ELSE FAILED

\* from_submission without a map: the status it sets.
NoMapStatus(passed) == IF passed THEN SUBMITTED ELSE FAILED

(***************************************************************************)
(* from_submission up to its first step that can fail or suspend on the    *)
(* engine (score.py:244-291): the arity check, the map and player lookup,  *)
(* the integer check, the casts and calc_accuracy.  out is "malformed"     *)
(* (None is returned), "suppressed" (the Score with no player is returned) *)
(* or "parsed".                                                            *)
(***************************************************************************)
\* score.py:276-291: the casts and calc_accuracy, on the Score that holds
\* the map and the player.
Parse(s1, data) ==
    LET mods == int(Fld(data, 13))
        s2 == [ s1 EXCEPT
                  !.n300 = int(Fld(data, 3)), !.n100 = int(Fld(data, 4)),
                  !.n50 = int(Fld(data, 5)), !.nmiss = int(Fld(data, 8)),
                  !.score = int(Fld(data, 9)),
                  !.mods = mods,
                  !.passed = (Fld(data, 14) = PassTrue),
                  !.mode = from_params(int(Fld(data, 15)), mods) ]
    IN [s2 EXCEPT !.acc = calc_accuracy(s2)]

\* score.py:256-257: the Score with the map and the player looked up.
Resolve(data, online) ==
    [ NewScore EXCEPT
        !.bmap = BeatmapFromMd5(Fld(data, 0)),
        !.player = get_login(rstrip(Fld(data, 1)), online) ]

\* score.py:272: every field cast to int is a decimal.
IntsSafe(data) == \A i \in IntFields : isdecimal(Fld(data, i))

\* Mutant: the check for an unresolved player is missing.
DecodeNoPlayerCheck(data, online) ==
    IF Len(data) # NumFields THEN [out |-> "malformed", s |-> NewScore]
    ELSE IF Len(Fld(data, 0)) # Md5Len THEN [out |-> "malformed", s |-> NewScore]
    ELSE IF ~IntsSafe(data) THEN [out |-> "malformed", s |-> NewScore]
    ELSE [out |-> "parsed", s |-> Parse(Resolve(data, online), data)]

Decode(data, online) ==
    IF Len(data) # NumFields THEN [out |-> "malformed", s |-> NewScore]
    ELSE IF Len(Fld(data, 0)) # Md5Len THEN [out |-> "malformed", s |-> NewScore]
    ELSE IF Resolve(data, online).player = 0
    THEN [out |-> "suppressed", s |-> Resolve(data, online)]
    ELSE IF ~IntsSafe(data) THEN [out |-> "malformed", s |-> NewScore]
    ELSE [out |-> "parsed", s |-> Parse(Resolve(data, online), data)]

(***************************************************************************)
(* Workloads.  A run serves one workload, fixed at its start: which        *)
(* plaintexts clients send, how many submissions are accepted and how many *)
(* may overlap.                                                            *)
(*   wide: every mode, score and outcome on a known and an unknown map,    *)
(*         and the malformed plaintexts; one submission at a time.         *)
(*   keys: two players, two maps, a mode and its relax variant, and a play *)
(*         on an unknown map; one submission at a time.                    *)
(*   deep: one player on one map, in a mode ranked by pp (passing and      *)
(*         failing plays) and one ranked by score; one submission at a     *)
(*         time, MaxStore of them.                                         *)
(*   hits: the hit counts vary; one submission at a time.                  *)
(*   acc:  every tuple of hit counts in 0..MaxHit, in every vanilla mode    *)
(*         and a relax variant; a single submission.                       *)
(*   flat: one player on one map in the modes the engine does not support, *)
(*         with varying raw score; one submission at a time, MaxStore of   *)
(*         them.                                                           *)
(*   race: one player on one map and mode; MaxTasks submissions overlap.   *)
(***************************************************************************)
Loads == {"wide", "keys", "deep", "hits", "acc", "flat", "race"}
SerialLoads == {"wide", "keys", "deep", "hits", "acc", "flat"}

NameA == <<"a", " ">>
NameB == <<"b">>
NameZ == <<"z">>

TextsWide ==
    { Plain(md5, NameA, HitsFull, sc, mp, pass) :
        md5 \in {Md5Known, Md5Unknown},
        sc \in { <<"0">>, <<"1">> },
        mp \in {ModeStd, ModeRxStd, ModeRxTaiko, ModeCatch},
        pass \in {PassTrue, PassFalse} }

\* Plaintexts that break the format in one place.
TextsBroken ==
    LET base == { Plain(md5, NameA, HitsFull, <<"1">>, ModeStd, PassTrue) :
                    md5 \in {Md5Known, Md5Short} }
    IN  { SubSeq(d, 1, NumFields - 1) : d \in base }
        \cup { Append(d, <<"x">>) : d \in base }
        \cup { WithField(d, i, f) : d \in base, i \in IntFields, f \in BadInts }
        \cup { d \in base : d[1] = Md5Short }

\* A well-formed plaintext of a name the registry does not hold.
TextsStranger ==
    { Plain(Md5Known, NameZ, HitsFull, <<"1">>, ModeStd, PassTrue) }

TextsKeys ==
    { Plain(md5, name, HitsFull, <<"1">>, mp, PassTrue) :
        md5 \in {Md5Known, Md5Known2}, name \in {NameA, NameB},
        mp \in {ModeStd, ModeRxStd} }
    \cup { Plain(Md5Unknown, NameA, HitsFull, <<"1">>, ModeStd, PassTrue) }

TextsDeep ==
    { Plain(Md5Known, NameA, HitsFull, <<"1">>, ModeStd, pass) :
        pass \in {PassTrue, PassFalse} }
    \cup { Plain(Md5Known, NameA, HitsFull, sc, ModeRxTaiko, PassTrue) :
             sc \in { <<"0">>, <<"1">> } }

TextsHits ==
    { Plain(Md5Known, NameA, hits, <<"1">>, mp, pass) :
        hits \in {HitsFull, HitsMiss, HitsNone, HitsMixed},
        mp \in {ModeStd, ModeTaiko, ModeCatch},
        pass \in {PassTrue, PassFalse} }

TextsAcc ==
    { Plain(Md5Known, NameA,
            <<DigitText(a), DigitText(b), DigitText(c), DigitText(d)>>,
            <<"1">>, mp, PassTrue) :
        a \in 0..MaxHit, b \in 0..MaxHit, c \in 0..MaxHit, d \in 0..MaxHit,
        mp \in {ModeStd, ModeTaiko, ModeCatch, ModeMania, ModeRxTaiko} }

TextsFlat ==
    { Plain(Md5Known, NameA, HitsFull, sc, mp, PassTrue) :
        sc \in { <<"0">>, <<"1">> }, mp \in {ModeCatch, ModeMania} }

TextsRace ==
    { Plain(Md5Known, NameA, HitsFull, <<"1">>, ModeStd, PassTrue) }

Texts(l) ==
    CASE l = "wide" -> TextsWide \cup TextsBroken \cup TextsStranger
      [] l = "keys" -> TextsKeys
      [] l = "deep" -> TextsDeep
      [] l = "hits" -> TextsHits
      [] l = "acc" -> TextsAcc
      [] l = "flat" -> TextsFlat
      [] l = "race" -> TextsRace

\* Submissions the workload accepts, and how many may overlap.
Quota(l) ==
    CASE l \in {"deep", "flat", "race"} -> MaxStore
      [] l = "keys" -> MaxStore - 1
      [] l = "acc" -> 1
      [] OTHER -> MaxStore - 2
Conc(l) == IF l = "race" THEN MaxTasks ELSE 1

(***************************************************************************)
(* State.                                                                  *)
(***************************************************************************)
VARIABLES
    load,     \* the workload of this run
    store,    \* the rows of the score tables
    tasks,    \* the submissions in flight, by slot
    loaded,   \* what Score.from_sql last returned to a reader, until the
              \* next submission arrives
    last,     \* id and rank of the score persisted last
    arrived   \* per row, the number of rows the store held when the
              \* submission that wrote it arrived

vars == <<load, store, tasks, loaded, last, arrived>>

Tasks == 1..MaxTasks

\* A free slot.  pc is where the coroutine stands; out is what
\* from_submission has returned ("" while it runs); calls are the awaited
\* collaborator calls made so far; md5 is data[0]; res is the row the BEST
\* lookup returned; seen is the number of rows the store held when the
\* submission arrived; failed tells that its engine call failed; g records what was sent: the number of fields, the
\* integer fields that are no decimals, the length of the checksum, and
\* whether the name resolved to a logged-in player.
Idle ==
    [ pc |-> "idle", out |-> "", s |-> NewScore, md5 |-> <<>>, res |-> None,
      calls |-> {}, seen |-> 0, failed |-> FALSE,
      g |-> [nf |-> 0, bad |-> {}, md5len |-> 0, login |-> FALSE] ]

InFlight == { t \in Tasks : tasks[t].pc # "idle" }

Sent(data, online) ==
    [ nf |-> Len(data),
      bad |-> { i \in IntFields : i < Len(data) /\ ~isdecimal(Fld(data, i)) },
      md5len |-> IF Len(data) > 0 THEN Len(Fld(data, 0)) ELSE 0,
      login |-> online /\ Len(data) > 1 /\ rstrip(Fld(data, 1)) \in {<<"a">>, <<"b">>} ]

Init ==
    /\ load \in Loads
    /\ store = <<>>
    /\ tasks = [t \in Tasks |-> Idle]
    /\ loaded = None
    /\ last = None
    /\ arrived = <<>>

InitSeq == Init /\ load \in SerialLoads

(***************************************************************************)
(* Score.from_submission, one action per suspension point.                 *)
(***************************************************************************)
Set(t, task) == tasks' = [tasks EXCEPT ![t] = task]

\* A submission arrives in the lowest free slot and runs to its first await
\* on the engine, or returns.
Start(t) ==
    /\ tasks[t].pc = "idle"
    /\ \A u \in Tasks : u < t => tasks[u].pc # "idle"
    /\ Cardinality(InFlight) < Conc(load)
    /\ Len(store) + Cardinality(InFlight) < Quota(load)
    /\ \E data \in Texts(load), online \in BOOLEAN :
         LET d == Decode(data, online)
             base == [ Idle EXCEPT !.s = d.s, !.g = Sent(data, online),
                                   !.seen = Len(store),
                                   !.md5 = IF Len(data) > 0 THEN Fld(data, 0) ELSE <<>> ]
         IN
         IF d.out # "parsed"
         THEN Set(t, [base EXCEPT !.pc = "returned", !.out = d.out])
         ELSE IF d.s.bmap # None
         THEN Set(t, [base EXCEPT !.pc = "diff"])
         ELSE Set(t, [base EXCEPT
                        !.pc = "returned", !.out = "score",
                        !.s = [d.s EXCEPT !.pp = 0,
                                          !.status = NoMapStatus(d.s.passed)]])
    /\ loaded' = None
    /\ UNCHANGED <<load, store, last, arrived>>

\* Mutant: calc_status looks for a BEST whether the play passed or not.
AfterDiffAlwaysLooksUp(task, pp, calls) ==
    [task EXCEPT !.pc = "lookup", !.calls = calls,
                 !.s = [task.s EXCEPT !.pp = pp]]

\* calc_status up to its lookup: a play that did not pass is FAILED and
\* goes on to calc_lb_placement.
AfterDiff(task, pp, calls) ==
    IF ~task.s.passed
    THEN [task EXCEPT !.pc = "rank", !.calls = calls,
                      !.s = [task.s EXCEPT !.pp = pp, !.status = FAILED]]
    ELSE [task EXCEPT !.pc = "lookup", !.calls = calls,
                      !.s = [task.s EXCEPT !.pp = pp]]

\* calc_diff in a mode the engine does not support: (0.0, 0.0), no call.
CalcDiffUnsupported(t) ==
    /\ tasks[t].pc = "diff"
    /\ ~EngineSupports(tasks[t].s.mode)
    /\ Set(t, AfterDiff(tasks[t], 0, tasks[t].calls))
    /\ UNCHANGED <<load, store, loaded, last, arrived>>

\* calc_diff: the engine answers.
CalcDiff(t) ==
    /\ tasks[t].pc = "diff"
    /\ EngineSupports(tasks[t].s.mode)
    /\ \E pp \in 0..MaxPP :
         Set(t, AfterDiff(tasks[t], pp, tasks[t].calls \cup {"engine"}))
    /\ UNCHANGED <<load, store, loaded, last, arrived>>

\* Mutant: the failure of the engine is swallowed and pp is taken as 0.
EngineFailureSwallowed(t) ==
    /\ tasks[t].pc = "diff"
    /\ EngineSupports(tasks[t].s.mode)
    /\ Set(t, [AfterDiff(tasks[t], 0, tasks[t].calls \cup {"engine"})
                  EXCEPT !.failed = TRUE])
    /\ UNCHANGED <<load, store, loaded, last, arrived>>

\* calc_diff: the engine fails, and the exception leaves from_submission.
EngineFails(t) ==
    /\ tasks[t].pc = "diff"
    /\ EngineSupports(tasks[t].s.mode)
    /\ Set(t, [tasks[t] EXCEPT !.pc = "returned", !.out = "raised",
                               !.failed = TRUE,
                               !.calls = @ \cup {"engine"}])
    /\ UNCHANGED <<load, store, loaded, last, arrived>>

\* calc_status: the lookup of the player's BEST finds none.
LookupNone(t) ==
    /\ tasks[t].pc = "lookup"
    /\ BestRows(store, tasks[t].s) = {}
    /\ Set(t, [tasks[t] EXCEPT !.pc = "rank", !.calls = @ \cup {"best"},
                               !.s = [@ EXCEPT !.status = FirstStatus]])
    /\ UNCHANGED <<load, store, loaded, last, arrived>>

\* calc_status: the lookup returns a BEST row (its id and pp).
LookupBest(t) ==
    /\ tasks[t].pc = "lookup"
    /\ \E i \in BestRows(store, tasks[t].s) :
         Set(t, [tasks[t] EXCEPT
                   !.pc = "prev", !.calls = @ \cup {"best"},
                   !.res = <<[id |-> i, pp |-> store[i].pp]>>])
    /\ UNCHANGED <<load, store, loaded, last, arrived>>

\* calc_status: the BEST row is reconstructed as prev_best and the statuses
\* are resolved.  (Rows are never deleted, so from_sql finds the row; with
\* no row, prev_best.status raises when the new score is better.)
LoadPrev(t) ==
    /\ tasks[t].pc = "prev"
    /\ LET task == tasks[t]
           res == task.res[1]
           prev == from_sql(store, res.id, sql_table(task.s.mode))
           calls == task.calls \cup {"from_sql"}
       IN
       IF prev # None
       THEN Set(t, [task EXCEPT !.pc = "rank", !.calls = calls,
                                !.s = ResolveAgainst(task.s, prev[1], res.pp)])
       ELSE IF Promotes(task.s.pp, res.pp)
       THEN Set(t, [task EXCEPT !.pc = "returned", !.out = "raised",
                                !.calls = calls])
       ELSE Set(t, [task EXCEPT !.pc = "rank", !.calls = calls,
                                !.s = [@ EXCEPT !.status = SUBMITTED]])
    /\ UNCHANGED <<load, store, loaded, last, arrived>>

\* calc_lb_placement, and from_submission returns the Score.
Rank(t) ==
    /\ tasks[t].pc = "rank"
    /\ Set(t, [tasks[t] EXCEPT
                  !.pc = "returned", !.out = "score",
                  !.calls = @ \cup {"count"},
                  !.s = [@ EXCEPT !.rank = calc_lb_placement(store, tasks[t].s)]])
    /\ UNCHANGED <<load, store, loaded, last, arrived>>

(***************************************************************************)
(* The caller of from_submission (the submission handler is not part of    *)
(* the sources at hand; spec.md sections 3 and 6): it inserts the returned *)
(* Score and, in the same transaction, writes the status of a demoted      *)
(* prev_best.  Nothing is written when no Score, or one with no player, is *)
(* returned, or when from_submission raised.                               *)
(***************************************************************************)
Demoted(st, s) ==
    IF s.status = BEST /\ s.prev_best # None
    THEN [st EXCEPT ![s.prev_best[1].id].status = s.prev_best[1].status]
    ELSE st

Persist(t) ==
    /\ tasks[t].pc = "returned"
    /\ tasks[t].out = "score"
    /\ LET id == Len(store) + 1 IN
       /\ store' = Append(Demoted(store, tasks[t].s),
                          Row(id, tasks[t].md5, tasks[t].s))
       /\ last' = <<[id |-> id, rank |-> tasks[t].s.rank]>>
       /\ arrived' = Append(arrived, tasks[t].seen)
    /\ Set(t, Idle)
    /\ loaded' = None
    /\ UNCHANGED load

Discard(t) ==
    /\ tasks[t].pc = "returned"
    /\ tasks[t].out # "score"
    /\ Set(t, Idle)
    /\ UNCHANGED <<load, store, loaded, last, arrived>>

\* Mutant: reconstruction resolves the status of a passed score anew.
ReadResolves ==
    /\ InFlight = {}
    /\ \E id \in 1..Len(store) :
         LET s == from_sql(store, id, store[id].tbl)[1]
         IN  loaded' = << [s EXCEPT !.status = IF s.passed THEN FirstStatus ELSE FAILED] >>
    /\ UNCHANGED <<load, store, tasks, last, arrived>>

\* A reader reconstructs a persisted score with Score.from_sql.  The read
\* is taken between submissions: the store changes only in Persist, so a
\* read beside a submission in flight returns what it returns here.
Read ==
    /\ InFlight = {}
    /\ \E id \in 1..Len(store) : loaded' = from_sql(store, id, store[id].tbl)
    /\ UNCHANGED <<load, store, tasks, last, arrived>>

Next ==
    \/ \E t \in Tasks :
          \/ Start(t)
          \/ CalcDiffUnsupported(t)
          \/ CalcDiff(t)
          \/ EngineFails(t)
          \/ LookupNone(t)
          \/ LookupBest(t)
          \/ LoadPrev(t)
          \/ Rank(t)
          \/ Persist(t)
          \/ Discard(t)
    \/ Read

\* Every workload, overlapping submissions included.
Spec == Init /\ [][Next]_vars

\* The workloads that handle one submission at a time.
SeqSpec == InitSeq /\ [][Next]_vars

(***************************************************************************)
(* Claims.                                                                 *)
(***************************************************************************)
Rows == 1..Len(store)

\* Rows of the same player, map checksum and vanilla mode.
SameKey(i, j) ==
    /\ store[i].userid = store[j].userid
    /\ store[i].map_md5 = store[j].map_md5
    /\ store[i].mode = store[j].mode

Returned(t) == tasks[t].pc = "returned" /\ tasks[t].out = "score"

C2_AsStated ==
    (/\ Len(store) = 2
     /\ arrived[2] = 0
     /\ SameKey(1, 2) /\ store[1].tbl = store[2].tbl
     /\ store[1].status # FAILED /\ store[2].status # FAILED
     /\ store[1].pp # store[2].pp)
        => {store[1].status, store[2].status} = {BEST, SUBMITTED}

\* C3: in calc_status of a passing play whose player holds a BEST of
\* performance P: pp > P makes the new score BEST and prev_best SUBMITTED;
\* pp <= P makes the new score SUBMITTED and leaves the BEST row and
\* prev_best BEST.
C3_StrictlyGreaterPromotes ==
    \A t \in Tasks :
        (tasks[t].pc \in {"rank", "returned"} /\ tasks[t].res # None) =>
            LET s == tasks[t].s
                P == store[tasks[t].res[1].id].pp
            IN  /\ s.prev_best # None
                /\ s.prev_best[1].id = tasks[t].res[1].id
                /\ s.pp > P =>
                      s.status = BEST /\ s.prev_best[1].status = SUBMITTED
                /\ s.pp <= P =>
                      /\ s.status = SUBMITTED
                      /\ s.prev_best[1].status = BEST
                      /\ store[tasks[t].res[1].id].status = BEST

\* C3 witness: a tie with the BEST has resolved.
C3_Witness ==
    \E t \in Tasks :
        /\ Returned(t) /\ tasks[t].res # None
        /\ tasks[t].s.pp = tasks[t].res[1].pp
        /\ tasks[t].s.status = SUBMITTED

\* The player of a returned Score holds a BEST row on its map and mode.
HoldsBest(t) ==
    \E i \in Rows :
        /\ store[i].userid = tasks[t].s.player
        /\ store[i].map_md5 = tasks[t].md5
        /\ store[i].tbl = sql_table(tasks[t].s.mode)
        /\ store[i].mode = as_vanilla(tasks[t].s.mode)
        /\ store[i].status = BEST

\* C4 as stated: a passing submission of a logged-in player who holds no
\* BEST on that map and mode is returned with status BEST.
C4_AsStated ==
    \A t \in Tasks :
        (Returned(t) /\ tasks[t].s.passed /\ ~HoldsBest(t))
            => tasks[t].s.status = BEST

\* C4 amended: a passing submission on a map that resolves, of a logged-in
\* player who holds no BEST on that map and mode, is returned with status
\* BEST (with no map resolved it is returned SUBMITTED).
C4_FirstOnResolvedMapIsBest ==
    \A t \in Tasks :
        (Returned(t) /\ tasks[t].s.passed /\ ~HoldsBest(t))
            => tasks[t].s.status = (IF tasks[t].s.bmap # None THEN BEST ELSE SUBMITTED)

\* C4 witness: a first score on a map is returned BEST while the store
\* holds rows of other keys.
C4_Witness ==
    \E t \in Tasks :
        /\ Returned(t) /\ tasks[t].s.passed /\ ~HoldsBest(t)
        /\ tasks[t].s.bmap # None /\ tasks[t].s.status = BEST
        /\ Len(store) > 0

\* C5: every Score returned by from_submission or from_sql that has not
\* passed has status FAILED.
C5_NotPassedIsFailed ==
    /\ \A t \in Tasks :
          (tasks[t].pc = "returned" /\ tasks[t].out \in {"score", "suppressed"}) =>
              /\ ~tasks[t].s.passed => tasks[t].s.status = FAILED
              /\ tasks[t].s.prev_best # None =>
                    (~tasks[t].s.prev_best[1].passed
                        => tasks[t].s.prev_best[1].status = FAILED)
    /\ loaded # None => (~loaded[1].passed => loaded[1].status = FAILED)

\* C5 witness: from_sql has reconstructed a FAILED row.
C5_Witness == loaded # None /\ ~loaded[1].passed /\ loaded[1].status = FAILED

\* What was sent is well formed: 18 fields, a checksum of 32 characters and
\* decimals where integers are read.
WellFormed(t) ==
    tasks[t].g.nf = NumFields /\ tasks[t].g.md5len = Md5Len /\ tasks[t].g.bad = {}

\* C6: a well-formed plaintext whose player does not resolve is answered
\* with a Score that has no player (not with None), and nothing was called
\* after the player lookup and nothing is written for it.
C6_UnresolvedPlayerSuppressed ==
    [][ \A t \in Tasks :
          (tasks[t].pc = "returned" /\ WellFormed(t) /\ ~tasks[t].g.login) =>
              /\ tasks[t].out = "suppressed"
              /\ tasks[t].s.player = 0
              /\ tasks[t].calls = {}
              /\ tasks'[t] # tasks[t] => (store' = store /\ tasks'[t] = Idle)
      ]_vars

\* C6 witness: a suppressed submission has returned while the store holds
\* a row.
C6_Witness ==
    \E t \in Tasks :
        /\ tasks[t].pc = "returned" /\ tasks[t].out = "suppressed"
        /\ WellFormed(t) /\ Len(store) > 0

\* C7 as stated: a plaintext that has not 18 fields, or has a non-decimal
\* in an integer field, is rejected as malformed whatever the player
\* lookup returns.
C7_AsStated ==
    \A t \in Tasks :
        (tasks[t].pc = "returned"
         /\ (tasks[t].g.nf # NumFields \/ tasks[t].g.bad # {}))
            => tasks[t].out = "malformed"

\* C8: when the engine call of a submission fails, from_submission raises
\* and returns no Score; by then only the engine was called (no BEST
\* lookup, no reconstruction, no count), no status was resolved and no
\* prev_best set, and no step of that submission changes the store.
C8_EngineFailurePropagates ==
    [][ \A t \in Tasks :
          /\ tasks'[t].failed =>
                /\ tasks'[t].pc = "returned" /\ tasks'[t].out = "raised"
                /\ tasks'[t].calls = {"engine"}
                /\ tasks'[t].s.status = FAILED
                /\ tasks'[t].s.prev_best = None
                /\ tasks'[t].s.rank = 0
          /\ ((tasks[t].failed \/ tasks'[t].failed) /\ tasks'[t] # tasks[t])
                => store' = store
          /\ (tasks[t].failed /\ tasks'[t] # tasks[t]) => tasks'[t] = Idle
      ]_vars

\* C8 witness: the engine has failed for a submission of a player who
\* holds a BEST on that map and mode.
C8_Witness ==
    \E t \in Tasks : tasks[t].failed /\ tasks[t].out = "raised" /\ HoldsBest(t)

\* The BEST rows on a map checksum and vanilla mode whose ranking value is
\* greater than that of s, in any table.
BetterAnywhere(s) ==
    { i \in Rows :
        /\ store[i].status = BEST
        /\ store[i].map_md5 = s.bmap[1]
        /\ store[i].mode = as_vanilla(s.mode)
        /\ RowValue(store[i], s.mode) > RankValue(s) }

C10_AsStated ==
    (/\ loaded # None /\ last # None
     /\ loaded[1].id = last[1].id
     /\ loaded[1].bmap # None)
        => loaded[1].rank = last[1].rank

\* C11: reconstructing a persisted score with from_sql, any number of times,
\* returns the stored status, resolves no status (no prev_best is set, no
\* submission state changes) and modifies no row of the store.
C11_FromSqlKeepsStatus ==
    [][ loaded' # None =>
          /\ loaded'[1].id \in 1..Len(store)
          /\ loaded'[1].status = store[loaded'[1].id].status
          /\ loaded'[1].prev_best = None
          /\ store' = store
          /\ tasks' = tasks
      ]_vars

\* C11 witness: a row demoted by a later BEST has been reconstructed, and
\* is SUBMITTED.
C11_Witness ==
    /\ loaded # None /\ loaded[1].status = SUBMITTED
    /\ \E j \in Rows :
          /\ j > loaded[1].id /\ SameKey(loaded[1].id, j)
          /\ store[j].tbl = store[loaded[1].id].tbl
          /\ store[j].status = BEST

\* A score on a map in a mode whose ranking value, pp or score, is v.
Probe(md5, mode, v) ==
    [NewScore EXCEPT !.bmap = <<md5>>, !.mode = mode, !.pp = v, !.score = v]

\* The modes and values the leaderboards are queried with.
ProbeModes == {0, 4, 5}
ProbeValues == 0..(MaxPP + 1)

\* C12: on every snapshot of the store, for a map and a mode (hence one
\* ranking metric), calc_lb_placement of a value v1 >= v2 is at most that
\* of v2.
C12_RankMonotone ==
    \A md5 \in {Md5Known, Md5Known2}, mode \in ProbeModes :
        LET r == [v \in ProbeValues |-> calc_lb_placement(store, Probe(md5, mode, v))]
        IN  \A v1, v2 \in ProbeValues : v1 >= v2 => r[v1] <= r[v2]

\* C12 witness: a leaderboard holds two BEST rows of different value, so
\* that the ranks 1, 2 and 3 are all computed on it.
C12_Witness ==
    \E md5 \in {Md5Known, Md5Known2}, mode \in ProbeModes :
        { calc_lb_placement(store, Probe(md5, mode, v)) : v \in ProbeValues }
            = {1, 2, 3}

\* A submission whose plaintext was parsed: calc_accuracy has run on it.
Parsed(t) == tasks[t].pc # "idle" /\ tasks[t].out \notin {"malformed", "suppressed"}

\* The notes calc_accuracy judges in the mode of s, and their weighted sum.
Judged(s) ==
    CASE as_vanilla(s.mode) = 0 -> s.n300 + s.n100 + s.n50 + s.nmiss
      [] as_vanilla(s.mode) = 1 -> s.n300 + s.n100 + s.nmiss
      [] OTHER -> 0
Weighted(s) ==
    CASE as_vanilla(s.mode) = 0 -> 50 * s.n50 + 100 * s.n100 + 300 * s.n300
      [] as_vanilla(s.mode) = 1 -> 150 * s.n100 + 300 * s.n300
      [] OTHER -> 0

\* C13: for every tuple of hit counts and every mode, the accuracy
\* calc_accuracy sets is the quotient 100 * weighted / (300 * judged), which
\* lies in 0..100 (0 <= weighted <= 300 * judged), and it is exactly 0 when
\* no note is judged.
C13_AccuracyInRange ==
    \A t \in Tasks :
        Parsed(t) =>
            LET s == tasks[t].s
                num == s.acc[1]
                den == s.acc[2]
            IN  /\ den > 0
                /\ 0 <= num /\ num <= 100 * den
                /\ 0 <= Weighted(s) /\ Weighted(s) <= 300 * Judged(s)
                /\ Judged(s) = 0 => num = 0
                /\ Judged(s) > 0 => num * 300 * Judged(s) = 100 * Weighted(s) * den

\* C13 witness: in the alternate-timing mode a play with hits of every kind
\* has an accuracy strictly between 0 and 100.
C13_Witness ==
    \E t \in Tasks :
        /\ Parsed(t) /\ as_vanilla(tasks[t].s.mode) = 1
        /\ tasks[t].s.n50 = MaxHit /\ tasks[t].s.n300 > 0
        /\ tasks[t].s.n100 > 0 /\ tasks[t].s.nmiss > 0
        /\ 0 < tasks[t].s.acc[1]
        /\ tasks[t].s.acc[1] < 100 * tasks[t].s.acc[2]

\* The hit counts of s are n300 = 0, n100 = 0, n50 = 0, nmiss = 1.
OnlyAMiss(s) == s.n300 = 0 /\ s.n100 = 0 /\ s.n50 = 0 /\ s.nmiss = 1

\* C14 as stated: a submission with hit counts (0, 0, 0, 1) is returned with
\* accuracy 0 and status FAILED, whatever its other fields.
C14_AsStated ==
    \A t \in Tasks :
        (Returned(t) /\ OnlyAMiss(tasks[t].s)) =>
            tasks[t].s.acc[1] = 0 /\ tasks[t].s.status = FAILED

\* C14 amended: a submission with hit counts (0, 0, 0, 1) is returned with
\* accuracy 0 whatever its pp; its status is FAILED exactly when its passed
\* field is not 'True' (a passing one is BEST or SUBMITTED).
C14_OnlyAMissFailsUnlessPassed ==
    \A t \in Tasks :
        (Returned(t) /\ OnlyAMiss(tasks[t].s)) =>
            /\ tasks[t].s.acc[1] = 0
            /\ tasks[t].s.status = FAILED <=> ~tasks[t].s.passed

\* C14 witness: such a play that did not pass is returned FAILED with the
\* greatest pp the engine gives.
C14_Witness ==
    \E t \in Tasks :
        /\ Returned(t) /\ OnlyAMiss(tasks[t].s)
        /\ ~tasks[t].s.passed /\ tasks[t].s.pp = MaxPP
        /\ tasks[t].s.status = FAILED /\ tasks[t].s.acc[1] = 0

\* C15 as stated: whenever calc_status sets prev_best on a new score, it is
\* the record of the same player, map and mode that holds BEST in the store
\* at the moment the status of the submission is decided, however other
\* submissions interleave with the lookup and the reconstruction.
C15_AsStated ==
    [][ \A t \in Tasks :
          (/\ tasks[t].pc = "prev" /\ tasks'[t].pc # "prev"
           /\ tasks'[t].s.prev_best # None) =>
              LET pb == tasks'[t].s.prev_best[1].id IN
              /\ pb \in 1..Len(store)
              /\ store[pb].userid = tasks[t].s.player
              /\ store[pb].map_md5 = tasks[t].md5
              /\ store[pb].mode = as_vanilla(tasks[t].s.mode)
              /\ store[pb].tbl = sql_table(tasks[t].s.mode)
              /\ store[pb].status = BEST
      ]_vars

\* C16: for a play that did not pass, calc_status sets FAILED and queries
\* nothing: no BEST lookup, no reconstruction of a previous best; prev_best
\* stays unset, and persisting the score changes no existing row.
C16_NotPassedNoLookup ==
    [][ \A t \in Tasks :
          (Parsed(t) /\ tasks[t].s.bmap # None /\ ~tasks[t].s.passed) =>
              /\ tasks[t].pc \in {"diff", "rank", "returned"}
              /\ tasks[t].calls \cap {"best", "from_sql"} = {}
              /\ tasks[t].res = None
              /\ tasks[t].s.prev_best = None
              /\ tasks[t].pc \in {"rank", "returned"} /\ ~tasks[t].failed
                    => tasks[t].s.status = FAILED
              /\ tasks'[t] # tasks[t] =>
                    \A i \in 1..Len(store) : store'[i] = store[i]
      ]_vars

\* C16 witness: a play that did not pass, of greater pp than the BEST its
\* player holds on that map and mode, is returned FAILED.
C16_Witness ==
    \E t \in Tasks :
        /\ Returned(t) /\ ~tasks[t].s.passed /\ tasks[t].s.bmap # None
        /\ tasks[t].s.status = FAILED /\ tasks[t].s.prev_best = None
        /\ \E i \in BestRows(store, tasks[t].s) : store[i].pp < tasks[t].s.pp

\* C17: when the map checksum resolves to no map, from_submission returns
\* the Score without any engine call, BEST lookup or count: rank 0, pp 0,
\* prev_best unset, status SUBMITTED if passed and FAILED otherwise, and
\* persisting it changes no existing row; from_sql of a row whose map does
\* not resolve leaves rank 0 too.
C17_NoMapSkipsRankAndStatus ==
    [][ /\ \A t \in Tasks :
             (Parsed(t) /\ tasks[t].s.bmap = None) =>
                 /\ tasks[t].pc = "returned" /\ tasks[t].out = "score"
                 /\ tasks[t].calls = {}
                 /\ tasks[t].s.rank = 0 /\ tasks[t].s.pp = 0
                 /\ tasks[t].res = None /\ tasks[t].s.prev_best = None
                 /\ tasks[t].s.status =
                       (IF tasks[t].s.passed THEN SUBMITTED ELSE FAILED)
                 /\ tasks'[t] # tasks[t] =>
                       \A i \in 1..Len(store) : store'[i] = store[i]
        /\ (loaded' # None /\ loaded'[1].bmap = None) => loaded'[1].rank = 0
      ]_vars

\* C17 witness: a passing play on an unknown map, submitted while its player
\* holds a BEST on a known map, has been persisted and reconstructed:
\* SUBMITTED with rank 0, and the BEST is still BEST.
C17_Witness ==
    /\ loaded # None /\ loaded[1].bmap = None
    /\ loaded[1].rank = 0 /\ loaded[1].status = SUBMITTED
    /\ \E i \in Rows :
          /\ i < loaded[1].id /\ store[i].userid = loaded[1].player
          /\ store[i].status = BEST

\* The vanilla modes calc_diff has no engine for.
Unsupported(mode_vn) == mode_vn \notin {0, 1}

\* C18: in a mode without performance support calc_diff calls no engine and
\* pp is 0; so a passing submission of a player who holds a BEST on that
\* map and mode is SUBMITTED and leaves the BEST as it is, whatever its raw
\* score: of the passing rows of a key on a resolved map the earliest is
\* the BEST one.
C18_UnsupportedModeKeepsFirstBest ==
    /\ \A t \in Tasks :
          (/\ Parsed(t) /\ tasks[t].s.bmap # None
           /\ Unsupported(as_vanilla(tasks[t].s.mode))) =>
              /\ "engine" \notin tasks[t].calls
              /\ ~tasks[t].failed
              /\ tasks[t].s.pp = 0
              /\ (tasks[t].pc \in {"rank", "returned"} /\ tasks[t].res # None) =>
                    /\ tasks[t].s.status = SUBMITTED
                    /\ tasks[t].s.prev_best # None
                    /\ tasks[t].s.prev_best[1].status = BEST
                    /\ store[tasks[t].res[1].id].status = BEST
    /\ \A j \in Rows :
          (/\ Unsupported(store[j].mode) /\ store[j].status # FAILED
           /\ BeatmapFromMd5(store[j].map_md5) # None) =>
              /\ store[j].pp = 0
              /\ store[j].status = BEST <=>
                    ~\E i \in 1..(j - 1) :
                        /\ SameKey(i, j) /\ store[i].tbl = store[j].tbl
                        /\ store[i].status # FAILED

\* C18 witness: in such a mode a play of greater raw score than the BEST
\* of its player is returned SUBMITTED.
C18_Witness ==
    \E t \in Tasks :
        /\ Returned(t) /\ Unsupported(as_vanilla(tasks[t].s.mode))
        /\ tasks[t].res # None /\ tasks[t].s.status = SUBMITTED
        /\ tasks[t].s.score > store[tasks[t].res[1].id].score
        /\ Len(store) >= 2

\* C19: over any sequence of submissions, overlapping ones included, a row
\* of the store changes in its status only, and only from BEST to
\* SUBMITTED, in the step that persists a new BEST row of the same key with
\* strictly greater pp: a FAILED row stays FAILED, and a SUBMITTED row never
\* becomes BEST.
C19_OnlyBestToSubmitted ==
    [][ \A i \in 1..Len(store) :
          /\ i <= Len(store')
          /\ [store'[i] EXCEPT !.status = store[i].status] = store[i]
          /\ store'[i].status # store[i].status =>
                LET n == Len(store') IN
                /\ store[i].status = BEST /\ store'[i].status = SUBMITTED
                /\ n = Len(store) + 1
                /\ store'[n].status = BEST
                /\ store'[n].userid = store[i].userid
                /\ store'[n].map_md5 = store[i].map_md5
                /\ store'[n].mode = store[i].mode
                /\ store'[n].tbl = store[i].tbl
                /\ store'[n].pp > store[i].pp
      ]_vars

\* C19 witness: two rows of a key have been demoted in turn, each by a
\* better score.
C19_Witness ==
    \E i, j, k \in Rows :
        /\ i < j /\ j < k /\ SameKey(i, j) /\ SameKey(j, k)
        /\ store[i].tbl = store[j].tbl /\ store[j].tbl = store[k].tbl
        /\ store[i].status = SUBMITTED /\ store[j].status = SUBMITTED
        /\ store[k].status = BEST
        /\ store[i].pp < store[j].pp /\ store[j].pp < store[k].pp

\* C20: with one submission at a time, the BEST row of a player on a map
\* and mode has a pp no less than that of every passing row of that key,
\* it is the earliest of the rows that tie with it, and a key with a
\* passing row on a resolved map has a BEST row.
C20_BestIsEarliestMaximum ==
    /\ \A i, j \in Rows :
          (/\ store[i].status = BEST /\ store[j].status # FAILED
           /\ SameKey(i, j) /\ store[i].tbl = store[j].tbl) =>
              /\ store[j].pp <= store[i].pp
              /\ store[j].pp = store[i].pp => i <= j
    /\ \A j \in Rows :
          (store[j].status # FAILED /\ BeatmapFromMd5(store[j].map_md5) # None) =>
              \E i \in Rows :
                  /\ SameKey(i, j) /\ store[i].tbl = store[j].tbl
                  /\ store[i].status = BEST

\* C20 witness: the BEST row of a key has taken over from a lower one and
\* has kept its place against a later tie.
C20_Witness ==
    \E i, j, k \in Rows :
        /\ i < j /\ j < k /\ SameKey(i, j) /\ SameKey(j, k)
        /\ store[i].tbl = store[j].tbl /\ store[j].tbl = store[k].tbl
        /\ store[i].status = SUBMITTED /\ store[j].status = BEST
        /\ store[k].status = SUBMITTED
        /\ store[i].pp < store[j].pp /\ store[k].pp = store[j].pp

====
